---- MODULE Spec2Model ----
(***************************************************************************)
(* Model of the scan controller of src/directory_fuzzer.tsx                *)
(* (React component DirectoryFuzzer).                                      *)
(*                                                                         *)
(* State: the component's useState cells (targetUrl, isScanning, isPaused, *)
(* results, progress, stats), the abortControllerRef ref, the              *)
(* AbortControllers created so far, and one record per invocation of the   *)
(* async function startScan (its locals, its closure and its position).    *)
(*                                                                         *)
(* JavaScript runs every event handler, timer callback and promise         *)
(* continuation to completion, so each action below is one such run: from  *)
(* the event up to the next await that really suspends (the fetch of line  *)
(* 36, the timer of line 110, the interval of lines 85-92).                *)
(* Strings are TLA+ strings; the timestamp field of a result (new Date())  *)
(* is left out of the records.                                             *)
(***************************************************************************)
EXTENDS Integers, Sequences, FiniteSets, TLC

(* ------------------------------ bounds -------------------------------- *)

\* longest wordlist explored (the shipped commonPaths has 69 entries)
MaxPaths == 2

\* number of startScan invocations explored in one behaviour
MaxScans == 2

(* ---------------------------- environment ----------------------------- *)

\* candidate tokens, the first entries of commonPaths (lines 13-24)
PathPool == <<"admin", "administrator", "login", "dashboard">>

\* the wordlists explored: the prefixes of the shipped list, the empty one included
Wordlists == { SubSeq(PathPool, 1, n) : n \in 0..MaxPaths }

\* what the user types in the target input (lines 175-182): nothing, a blank,
\* a host without scheme, the same host with scheme and trailing slash
Targets == { "", " ", "a.io", "https://a.io/" }

\* how a fetch that is not aborted can end: an opaque response, or a
\* rejection with a TypeError (network failure)
FetchOutcomes == { "opaque", "TypeError" }

\* what the user types when the resolver is explored: the targets above, the
\* examples of the resolver's contract, another scheme, a bare scheme, a bare
\* slash and an input with two trailing slashes
ResolverInputs ==
    Targets \cup { "example.com", "http://example.com/", "a.io//", "/",
                   "http://", "ftp://a.io/" }

\* number of startScan invocations explored when the wordlist has a single
\* candidate
MaxRestarts == MaxScans + 1

ScanIds == 1..MaxRestarts

VARIABLES
    commonPaths,         \* the wordlist (lines 13-24), fixed during a behaviour
    server,              \* the probe source: candidate |-> outcome of its fetch
    targetUrl,           \* useState, line 5
    isScanning,          \* useState, line 6
    isPaused,            \* useState, line 7
    results,             \* useState, line 8
    progress,            \* useState, line 9: a percentage kept as num/den
    stats,               \* useState, line 10
    abortControllerRef,  \* useRef, line 11: 0 is null, n is the controller of the n-th scan
    aborted,             \* the controllers whose signal is aborted
    scans                \* the invocations of startScan: locals, closure, position

vars == << commonPaths, server, targetUrl, isScanning, isPaused, results,
           progress, stats, abortControllerRef, aborted, scans >>

(* ------------------------- Target Resolver ---------------------------- *)

startsWith(s, p) == Len(s) >= Len(p) /\ SubSeq(s, 1, Len(p)) = p

endsWith(s, p) == Len(s) >= Len(p) /\ SubSeq(s, Len(s) - Len(p) + 1, Len(s)) = p

\* String.prototype.trim, for the blank character
RECURSIVE trimStart(_)
trimStart(s) ==
    IF startsWith(s, " ") THEN trimStart(SubSeq(s, 2, Len(s))) ELSE s

RECURSIVE trimEnd(_)
trimEnd(s) ==
    IF endsWith(s, " ") THEN trimEnd(SubSeq(s, 1, Len(s) - 1)) ELSE s

\* a trim that removes nothing
trimNothing(s) == s

trim(s) == trimEnd(trimStart(s))

\* a resolver that removes every trailing slash
RECURSIVE stripSlashes(_)
stripSlashes(u) ==
    IF endsWith(u, "/") THEN stripSlashes(SubSeq(u, 1, Len(u) - 1)) ELSE u

normalizeUrlStripsAll(url) ==
    stripSlashes(IF ~startsWith(url, "http://") /\ ~startsWith(url, "https://")
                 THEN "https://" \o url
                 ELSE url)

\* lines 26-31
normalizeUrl(url) ==
    LET u == IF ~startsWith(url, "http://") /\ ~startsWith(url, "https://")
             THEN "https://" \o url
             ELSE url
    IN  IF endsWith(u, "/") THEN SubSeq(u, 1, Len(u) - 1) ELSE u

(* ------------------------------ probe --------------------------------- *)

\* a probe URL without the separator
ProbeUrlNoSeparator(baseUrl, path) == baseUrl \o path

\* line 34
ProbeUrl(baseUrl, path) == baseUrl \o "/" \o path

\* lines 44-50: the record of a resolved (opaque, no-cors) fetch
OpaqueResult(baseUrl, path) ==
    [ path |-> path, url |-> ProbeUrl(baseUrl, path),
      status |-> "Unknown (CORS)", found |-> TRUE ]

\* lines 55-61: the record of a fetch rejected by a transport error;
\* status is error.message
ErrorResult(baseUrl, path) ==
    [ path |-> path, url |-> ProbeUrl(baseUrl, path),
      status |-> "Failed to fetch", found |-> FALSE ]

\* checkPath with a catch block that throws every error again
checkPathRethrow(baseUrl, path, outcome) ==
    IF outcome = "opaque"
    THEN [ kind |-> "return", value |-> OpaqueResult(baseUrl, path) ]
    ELSE [ kind |-> "throw", name |-> outcome ]

\* lines 33-63: how checkPath settles, given how its fetch ended (outcome is
\* "opaque", "TypeError" or "AbortError")
checkPath(baseUrl, path, outcome) ==
    IF outcome = "opaque"
    THEN [ kind |-> "return", value |-> OpaqueResult(baseUrl, path) ]
    ELSE IF outcome = "AbortError"
    THEN [ kind |-> "throw", name |-> "AbortError" ]
    ELSE [ kind |-> "return", value |-> ErrorResult(baseUrl, path) ]

(* --------------------------- scan controller -------------------------- *)

ZeroStats == [ found |-> 0, notFound |-> 0, errors |-> 0 ]

\* progress 0 of lines 9 and 74
ZeroProgress == [ num |-> 0, den |-> 1 ]

\* line 107: ((i + 1) / commonPaths.length) * 100, i counted from 0
ProgressAfter(i) == [ num |-> (i + 1) * 100, den |-> Len(commonPaths) ]

\* line 98: setResults(prev => [result, ...prev])
AddResult(result, prev) == <<result>> \o prev

\* lines 100-104
CountResult(currentStats, result) ==
    IF result.found
    THEN [ currentStats EXCEPT !.found = @ + 1 ]
    ELSE [ currentStats EXCEPT !.notFound = @ + 1 ]

\* lines 113: the tally of a probe that threw something else than AbortError
CountError(currentStats) == [ currentStats EXCEPT !.errors = @ + 1 ]

\* an invocation of startScan that has not been made yet
NoScan == [ pc |-> "none", i |-> 0, baseUrl |-> "", isPaused |-> FALSE,
            currentStats |-> ZeroStats, signal |-> 0 ]

\* an invocation that has returned: its locals are gone (the base URL is kept
\* to tell which scan it was)
Returned(s) == [ NoScan EXCEPT !.pc = "done", !.baseUrl = s.baseUrl ]

\* line 83, and line 87: abortControllerRef.current?.signal.aborted, read
\* through the ref when the loop gets there
SignalAborted(ref, ab) == ref # 0 /\ ref \in ab

\* a loop head that, the wordlist exhausted, sets the timer of line 110 again
\* instead of leaving the loop
LoopHeadWaitsAtEnd(s, i, ref, ab) ==
    IF SignalAborted(ref, ab)
    THEN Returned(s)
    ELSE IF i >= Len(commonPaths)
    THEN [ s EXCEPT !.pc = "delay", !.i = i - 1 ]
    ELSE [ s EXCEPT !.pc = "fetch", !.i = i, !.signal = ref ]

\* a loop head that, finding the scan paused, probes the candidate before
\* index i again
LoopHeadReprobesWhenPaused(s, i, ref, ab) ==
    IF i >= Len(commonPaths) \/ SignalAborted(ref, ab)
    THEN Returned(s)
    ELSE IF isPaused /\ i > 0
    THEN [ s EXCEPT !.pc = "fetch", !.i = i - 1, !.signal = ref ]
    ELSE [ s EXCEPT !.pc = "fetch", !.i = i, !.signal = ref ]

\* lines 82-96: the head of the loop for index i (i counted from 0), run by
\* the invocation s with the ref and the controllers as they are then.
\* The result is the invocation's record at its next suspension:
\*   "done"      the loop is left (by exhaustion, by break) and lines 118-119 ran
\*   "pausewait" the promise of lines 85-92 is awaited
\*   "fetch"     the fetch of line 36 is awaited, with the signal read at line 38
LoopHead(s, i, ref, ab) ==
    IF i >= Len(commonPaths) \/ SignalAborted(ref, ab)
    THEN Returned(s)
    ELSE IF s.isPaused
    THEN [ s EXCEPT !.pc = "pausewait", !.i = i, !.signal = 0 ]
    ELSE [ s EXCEPT !.pc = "fetch", !.i = i, !.signal = ref ]

\* lines 87-96: a tick of the interval of line 86 for the invocation s
PauseTick(s, ref, ab) ==
    IF ~s.isPaused \/ SignalAborted(ref, ab)
    THEN \* resolve(); checkPath is called; a fetch with an aborted signal
         \* rejects with AbortError at once, line 112 breaks
         IF SignalAborted(ref, ab)
         THEN Returned(s)
         ELSE [ s EXCEPT !.pc = "fetch", !.signal = ref ]
    ELSE s

\* an invocation that leaves its loop without lines 118-119
AfterLoopKeeps(new, flag) == flag

\* lines 118-119 when the invocation has left its loop
AfterLoop(new, flag) == IF new.pc = "done" THEN FALSE ELSE flag

Init ==
    /\ commonPaths \in Wordlists
    /\ server \in [ { commonPaths[k] : k \in 1..Len(commonPaths) } -> FetchOutcomes ]
    /\ targetUrl = ""
    /\ isScanning = FALSE
    /\ isPaused = FALSE
    /\ results = << >>
    /\ progress = ZeroProgress
    /\ stats = ZeroStats
    /\ abortControllerRef = 0
    /\ aborted = {}
    /\ scans = [ n \in ScanIds |-> NoScan ]

\* line 178: onChange of the target input, disabled while isScanning (line 180)
SetTargetUrl(t) ==
    /\ ~isScanning
    /\ targetUrl # t
    /\ targetUrl' = t
    /\ UNCHANGED << commonPaths, server, isScanning, isPaused, results,
                    progress, stats, abortControllerRef, aborted, scans >>

\* lines 65-96: a click on Start Scan, rendered only while ~isScanning
\* (line 185), up to the first suspension; limit caps the number of
\* invocations
StartScanWithin(limit) ==
    /\ ~isScanning
    /\ abortControllerRef < limit
    /\ IF trim(targetUrl) = ""
       THEN \* lines 66-69: alert and return
            UNCHANGED vars
       ELSE LET n   == abortControllerRef + 1
                s0  == [ NoScan EXCEPT !.baseUrl = normalizeUrl(targetUrl),
                                       !.isPaused = isPaused ]
                new == LoopHead(s0, 0, n, aborted)
            IN  /\ isScanning' = AfterLoop(new, TRUE)
                /\ isPaused' = FALSE
                /\ results' = << >>
                /\ progress' = ZeroProgress
                /\ stats' = ZeroStats
                /\ abortControllerRef' = n
                /\ scans' = [ scans EXCEPT ![n] = new ]
                /\ UNCHANGED << commonPaths, server, targetUrl, aborted >>

StartScan == StartScanWithin(MaxScans)

\* lines 128-130: a click on Pause / Resume, rendered only while isScanning
TogglePause ==
    /\ isScanning
    /\ isPaused' = ~isPaused
    /\ UNCHANGED << commonPaths, server, targetUrl, isScanning, results,
                    progress, stats, abortControllerRef, aborted, scans >>

\* lines 122-126: a click on Stop, rendered only while isScanning.  abort()
\* rejects every pending fetch that was given this signal; the rejection
\* reaches line 52, is thrown again, and line 112 breaks: those
\* continuations run before any other event.
StopScan ==
    /\ isScanning
    /\ aborted' = IF abortControllerRef = 0 THEN aborted
                  ELSE aborted \cup { abortControllerRef }
    /\ scans' = [ n \in ScanIds |->
                    IF scans[n].pc = "fetch" /\ scans[n].signal \in aborted'
                    THEN Returned(scans[n])
                    ELSE scans[n] ]
    /\ isScanning' = FALSE
    /\ isPaused' = FALSE
    /\ UNCHANGED << commonPaths, server, targetUrl, results, progress,
                    stats, abortControllerRef >>

\* lines 96-115: the fetch of the invocation n settles (not by abort)
ProbeDone(n) ==
    /\ scans[n].pc = "fetch"
    /\ LET s == scans[n]
           r == checkPath(s.baseUrl, commonPaths[s.i + 1],
                          server[commonPaths[s.i + 1]])
       IN  IF r.kind = "return"
           THEN LET cs == CountResult(s.currentStats, r.value)
                IN  /\ results' = AddResult(r.value, results)
                    /\ stats' = cs
                    /\ progress' = ProgressAfter(s.i)
                    /\ scans' = [ scans EXCEPT ![n] =
                                    [ s EXCEPT !.pc = "delay", !.signal = 0,
                                               !.currentStats = cs ] ]
                    /\ UNCHANGED << isScanning, isPaused >>
           ELSE IF r.name = "AbortError"
           THEN \* line 112
                /\ scans' = [ scans EXCEPT ![n] = Returned(s) ]
                /\ isScanning' = FALSE
                /\ isPaused' = FALSE
                /\ UNCHANGED << results, stats, progress >>
           ELSE \* lines 113-114, then the next iteration at once
                LET cs  == CountError(s.currentStats)
                    new == LoopHead([ s EXCEPT !.currentStats = cs ], s.i + 1,
                                    abortControllerRef, aborted)
                IN  /\ stats' = cs
                    /\ scans' = [ scans EXCEPT ![n] = new ]
                    /\ isScanning' = AfterLoop(new, isScanning)
                    /\ isPaused' = AfterLoop(new, isPaused)
                    /\ UNCHANGED << results, progress >>
    /\ UNCHANGED << commonPaths, server, targetUrl, abortControllerRef, aborted >>

\* a timer of the invocation n fires: the timeout of line 110, after which
\* the loop goes to its next index, or a tick of the interval of line 86
TimerFires(n) ==
    /\ scans[n].pc \in { "delay", "pausewait" }
    /\ LET s   == scans[n]
           new == IF s.pc = "delay"
                  THEN LoopHead(s, s.i + 1, abortControllerRef, aborted)
                  ELSE PauseTick(s, abortControllerRef, aborted)
       IN  /\ scans' = [ scans EXCEPT ![n] = new ]
           /\ isScanning' = AfterLoop(new, isScanning)
           /\ isPaused' = AfterLoop(new, isPaused)
    /\ UNCHANGED << commonPaths, server, targetUrl, results, progress, stats,
                    abortControllerRef, aborted >>

Next ==
    \/ \E t \in Targets : SetTargetUrl(t)
    \/ StartScan
    \/ TogglePause
    \/ StopScan
    \/ \E n \in ScanIds : ProbeDone(n)
    \/ \E n \in ScanIds : TimerFires(n)

Spec == Init /\ [][Next]_vars

\* The controller with a wordlist of one candidate.
InitOne ==
    /\ Init
    /\ Len(commonPaths) = 1

\* The resolver explored: the target is typed from ResolverInputs.
NextResolve ==
    \/ \E t \in ResolverInputs : SetTargetUrl(t)
    \/ StartScan
    \/ TogglePause
    \/ StopScan
    \/ \E n \in ScanIds : ProbeDone(n)
    \/ \E n \in ScanIds : TimerFires(n)

SpecResolve == InitOne /\ [][NextResolve]_vars

\* Restarts explored: one more invocation of startScan, and Stop is only
\* clicked while the controller is paused.
Restart == StartScanWithin(MaxRestarts)

PausedStop == isPaused /\ StopScan

NextPausedStop ==
    \/ \E t \in Targets : SetTargetUrl(t)
    \/ Restart
    \/ TogglePause
    \/ PausedStop
    \/ \E n \in ScanIds : ProbeDone(n)
    \/ \E n \in ScanIds : TimerFires(n)

SpecPausedStop == InitOne /\ [][NextPausedStop]_vars

\* The scheduling of the browser: a fetch that is not aborted settles and a
\* timer that is set fires, so that while an invocation is suspended one of
\* them is eventually resumed.
LoopStep == \E n \in ScanIds : ProbeDone(n) \/ TimerFires(n)

\* the fair runs are explored for one target, the host without scheme
NextFair ==
    \/ SetTargetUrl("a.io")
    \/ StartScan
    \/ TogglePause
    \/ StopScan
    \/ LoopStep

SpecFair == Init /\ [][NextFair]_vars /\ WF_vars(LoopStep)

TypeOK ==
    /\ commonPaths \in Wordlists
    /\ targetUrl \in ResolverInputs
    /\ isScanning \in BOOLEAN
    /\ isPaused \in BOOLEAN
    /\ abortControllerRef \in 0..MaxRestarts
    /\ aborted \subseteq ScanIds
    /\ \A n \in ScanIds : scans[n].pc \in { "none", "fetch", "delay", "pausewait", "done" }

(* ====================================================================== *)
(* Definitions shared by the properties                                   *)
(* ====================================================================== *)

\* the invocations of startScan that have not returned
LiveScans == { n \in ScanIds : scans[n].pc \in { "fetch", "delay", "pausewait" } }

\* the invocations with a fetch in flight
InFlight == { n \in ScanIds : scans[n].pc = "fetch" }

\* the candidate the invocation n is at
Candidate(n) == commonPaths[scans[n].i + 1]

\* the number of candidates whose probe the invocation s has completed
Processed(s) == IF s.pc = "delay" THEN s.i + 1 ELSE s.i

\* a scan has been started and none has been started after it
Started == abortControllerRef # 0

\* the newest scan
Current == scans[abortControllerRef]

\* stop has been requested for the newest scan
StopRequested == Started /\ abortControllerRef \in aborted

\* the step issues a probe for the invocation n
IssuesProbe(n) ==
    /\ scans'[n].pc = "fetch"
    /\ scans[n].pc = "fetch" => scans'[n].i # scans[n].i

\* the step is the end of the probe of invocation n, by a transport error
ProbeFails(n) ==
    /\ scans[n].pc = "fetch"
    /\ scans'[n] # scans[n]
    /\ aborted' = aborted
    /\ server[Candidate(n)] = "TypeError"

\* what the scan of the wordlist W against the base URL leaves after its
\* first k candidates when nothing interferes with it (no pause, no stop)
RECURSIVE ScanPrefix(_, _, _)
ScanPrefix(baseUrl, W, k) ==
    IF k = 0
    THEN [ results |-> << >>, stats |-> ZeroStats ]
    ELSE LET before == ScanPrefix(baseUrl, W, k - 1)
             r      == checkPath(baseUrl, W[k], server[W[k]]).value
         IN  [ results |-> AddResult(r, before.results),
               stats   |-> CountResult(before.stats, r) ]

\* what the consumer of the controller can observe (lines 6-10)
View == [ isScanning |-> isScanning, isPaused |-> isPaused, results |-> results,
          progress |-> progress, stats |-> stats ]

\* what the consumer observes when the scan of the base URL has completed
CompletedView(baseUrl) ==
    LET all == ScanPrefix(baseUrl, commonPaths, Len(commonPaths))
    IN  [ isScanning |-> FALSE, isPaused |-> FALSE, results |-> all.results,
          progress |-> IF commonPaths = << >> THEN ZeroProgress
                       ELSE ProgressAfter(Len(commonPaths) - 1),
          stats |-> all.stats ]

(* ====================================================================== *)
(* C1                                                                     *)
(* ====================================================================== *)

\* C1: a scan that ran to completion without a stop request leaves exactly
\* |W| records, one per candidate, the i-th record being the record of the
\* i-th candidate of the wordlist.
C1_WordlistOrder ==
    (Started /\ Current.pc = "done" /\ ~StopRequested)
        => /\ Len(results) = Len(commonPaths)
           /\ \A k \in 1..Len(results) : results[k].path = commonPaths[k]

(* ====================================================================== *)
(* C2                                                                     *)
(* ====================================================================== *)

\* C2: in every reachable state the three statistics add up to the number
\* of records in the result sequence.
C2_StatsSum ==
    stats.found + stats.notFound + stats.errors = Len(results)

(* ====================================================================== *)
(* C3                                                                     *)
(* ====================================================================== *)

\* C3: when stop is requested after k candidates of the scan have been
\* processed the result sequence holds exactly k records, and as long as no
\* new scan is started no record is added and no probe is issued afterwards.
C3_StopFreezes ==
    [][ /\ (Started /\ ~StopRequested /\ StopRequested'
               /\ abortControllerRef' = abortControllerRef)
            => /\ Len(results) = Processed(Current)
               /\ results' = results
        /\ (StopRequested /\ abortControllerRef' = abortControllerRef)
            => /\ results' = results
               /\ \A n \in ScanIds : ~IssuesProbe(n) ]_vars

(* ====================================================================== *)
(* C4                                                                     *)
(* ====================================================================== *)

\* C4: while the scan state is Paused no probe for a later candidate is
\* issued (a probe in flight may complete).
C4_PausedSuspends ==
    [][ (isScanning /\ isPaused /\ isScanning' /\ isPaused')
            => \A n \in ScanIds : ~IssuesProbe(n) ]_vars

(* ====================================================================== *)
(* C5                                                                     *)
(* ====================================================================== *)

\* C5: at most one probe loop is live and at most one probe is in flight at
\* any time, and a loop whose scan has been sent a stop never issues
\* another probe.
C5_SingleLoop ==
    [][ /\ Cardinality(LiveScans') <= 1
        /\ Cardinality(InFlight') <= 1
        /\ \A n \in ScanIds : n \in aborted => ~IssuesProbe(n) ]_vars

(* ====================================================================== *)
(* C6                                                                     *)
(* ====================================================================== *)

\* C6: what the consumer observes after a scan was cancelled by stop is
\* never equal to what it observes after a scan that completed.
C6_StoppedDistinct ==
    (StopRequested /\ ~isScanning) => View # CompletedView(Current.baseUrl)

(* ====================================================================== *)
(* C7                                                                     *)
(* ====================================================================== *)

\* C7: a transport error on the probe of a candidate appends the record of
\* that candidate and leaves the loop running; a loop goes from one
\* candidate to the next one, and it is left only when the candidates are
\* exhausted or a stop was requested.
C7_ErrorDoesNotAbort ==
    [][ \A n \in ScanIds :
          /\ ProbeFails(n)
                => /\ Len(results') = Len(results) + 1
                   /\ results'[1].path = Candidate(n)
                   /\ ~results'[1].found
                   /\ scans'[n].pc = "delay"
                   /\ scans'[n].i = scans[n].i
          /\ (scans[n].pc = "delay" /\ scans'[n].pc \in { "fetch", "pausewait" })
                => scans'[n].i = scans[n].i + 1
          /\ (n \in LiveScans /\ scans'[n].pc = "done")
                => \/ scans[n].pc = "delay" /\ scans[n].i + 1 = Len(commonPaths)
                   \/ abortControllerRef \in aborted' ]_vars

\* C7 witness: a scan completed without any stop request although the probe
\* of its first candidate ended in a transport error.
C7_Witness ==
    /\ aborted = {}
    /\ Started /\ Current.pc = "done"
    /\ Len(commonPaths) >= 2
    /\ Len(results) = Len(commonPaths)
    /\ results[Len(results)].status = "Failed to fetch"
    /\ results[Len(results)].path = commonPaths[1]

(* ====================================================================== *)
(* C8                                                                     *)
(* ====================================================================== *)

\* C8: a probe that ends in a transport error increments stats.errors by
\* one and leaves stats.found and stats.notFound unchanged.
C8_ErrorsCounted ==
    [][ \A n \in ScanIds :
          ProbeFails(n) => /\ stats'.errors = stats.errors + 1
                           /\ stats'.found = stats.found
                           /\ stats'.notFound = stats.notFound ]_vars

(* ====================================================================== *)
(* C9                                                                     *)
(* ====================================================================== *)

\* C9: no record whose status is unobservable (opaque no-cors response) has
\* found = true, and such records are not counted in stats.found.
C9_UnobservableNotFound ==
    /\ \A k \in 1..Len(results) :
          results[k].status = "Unknown (CORS)" => ~results[k].found
    /\ (\A k \in 1..Len(results) : results[k].status = "Unknown (CORS)")
          => stats.found = 0

(* ====================================================================== *)
(* C10                                                                    *)
(* ====================================================================== *)

\* C10: in a scan in which only pause and resume are requested, the result
\* sequence and the statistics are at every moment those of the unpaused
\* scan of the same target and wordlist after the same number of
\* candidates, each candidate probed once; in particular they are when the
\* scan has completed.
C10_PauseResumeSameOutcome ==
    (aborted = {} /\ Started) =>
        LET k   == IF Current.pc = "done" THEN Len(commonPaths)
                   ELSE Processed(Current)
            ref == ScanPrefix(Current.baseUrl, commonPaths, k)
        IN  /\ results = ref.results
            /\ stats = ref.stats
            /\ \A a, b \in 1..Len(results) :
                  results[a].path = results[b].path => a = b
            /\ Current.pc \in { "fetch", "pausewait" }
                  => Current.i = Len(results)

\* C10 witness: pause is in effect in a scan that was never stopped, and
\* every candidate of a wordlist of two or more has been processed.
C10_Witness ==
    /\ aborted = {}
    /\ isScanning /\ isPaused
    /\ Started /\ Current.pc = "delay"
    /\ Len(commonPaths) >= 2
    /\ Len(results) = Len(commonPaths)

(* ====================================================================== *)
(* Definitions shared by the properties of the resolver and of restarts   *)
(* ====================================================================== *)

\* the step starts a scan
StartsScan == abortControllerRef' # abortControllerRef

\* the step is the end of the probe of invocation n, with a record
ProbeCompletes(n) == scans[n].pc = "fetch" /\ scans'[n].pc = "delay"

\* the string holds nothing but blanks
Blank(str) == \A k \in 1..Len(str) : SubSeq(str, k, k) = " "

\* the k-th character of the string
CharAt(str, k) == SubSeq(str, k, k)

\* the string has the characters of the prefix at its head
HasPrefix(str, prefix) ==
    /\ Len(str) >= Len(prefix)
    /\ \A k \in 1..Len(prefix) : CharAt(str, k) = CharAt(prefix, k)

HasScheme(str) == HasPrefix(str, "http://") \/ HasPrefix(str, "https://")

EndsInSlash(str) == Len(str) >= 1 /\ CharAt(str, Len(str)) = "/"

\* the input with the default secure scheme when it has none
Qualified(rawInput) ==
    IF HasScheme(rawInput) THEN rawInput ELSE "https://" \o rawInput

\* the reference resolver: scheme-qualify, then drop one trailing slash
Resolve(rawInput) ==
    LET q == Qualified(rawInput)
    IN  IF EndsInSlash(q) THEN SubSeq(q, 1, Len(q) - 1) ELSE q

\* a / b >= c / d for the percentages kept as num/den
AtLeast(a, b) == a.num * b.den >= b.num * a.den

(* ====================================================================== *)
(* C11                                                                    *)
(* ====================================================================== *)

\* C11: the start of a scan empties the results, the statistics and the
\* progress, and from then on every record and every statistic is produced
\* by a probe of the current run.
C11_FreshRun ==
    [][ /\ StartsScan => /\ results' = << >>
                         /\ stats' = ZeroStats
                         /\ progress' = ZeroProgress
        /\ (~StartsScan /\ (results' # results \/ stats' # stats))
              => Started /\ ProbeCompletes(abortControllerRef) ]_vars

(* ====================================================================== *)
(* C12                                                                    *)
(* ====================================================================== *)

\* C12: the base URL of a scan is the reference resolution of the target:
\* "https://" in front when the target has no http(s) scheme, then exactly
\* one trailing "/" removed; "example.com" gives "https://example.com" and
\* "http://example.com/" gives "http://example.com".
C12_ResolveReference ==
    [][ StartsScan =>
          LET base == scans'[abortControllerRef'].baseUrl
          IN  /\ base = Resolve(targetUrl)
              /\ targetUrl = "example.com" => base = "https://example.com"
              /\ targetUrl = "http://example.com/" => base = "http://example.com"
              /\ targetUrl = "a.io//" => base = "https://a.io/" ]_vars

\* C12 witness: a scan was started on "http://example.com/" and resolved it.
C12_Witness ==
    /\ Started
    /\ targetUrl = "http://example.com/"
    /\ Current.pc = "fetch"
    /\ Current.baseUrl = "http://example.com"

(* ====================================================================== *)
(* C13                                                                    *)
(* ====================================================================== *)

\* C13: while the target is empty or blank no scan is started: no
\* invocation begins, no controller is made or aborted, the flags stay
\* down, and results, statistics and progress change only by a probe of an
\* invocation that was already running.
C13_BlankTargetNoStart ==
    [][ Blank(targetUrl) =>
          /\ ~StartsScan
          /\ aborted' = aborted
          /\ \A n \in ScanIds : scans[n].pc = "none" => scans'[n] = scans[n]
          /\ \A n \in ScanIds : IssuesProbe(n) => n \in LiveScans
          /\ ~isScanning /\ ~isScanning' /\ ~isPaused'
          /\ (results' # results \/ stats' # stats \/ progress' # progress)
                => \E n \in ScanIds : ProbeCompletes(n) ]_vars

\* C13 witness: Start Scan can be clicked on a blank target while the
\* results of an earlier scan are shown.
C13_Witness ==
    /\ Blank(targetUrl) /\ targetUrl # ""
    /\ ~isScanning
    /\ Started /\ abortControllerRef < MaxScans
    /\ Len(results) >= 1

(* ====================================================================== *)
(* C14                                                                    *)
(* ====================================================================== *)

\* C14: with an empty wordlist no probe is ever in flight, and a started
\* scan is over at once: not scanning, not paused, no result, statistics
\* and progress at zero.
C14_EmptyWordlist ==
    commonPaths = << >> =>
        /\ LiveScans = {}
        /\ ~isScanning /\ ~isPaused
        /\ results = << >>
        /\ stats = ZeroStats
        /\ progress = ZeroProgress
        /\ \A n \in ScanIds : n <= abortControllerRef => scans[n].pc = "done"

\* C14 witness: a scan was started with the empty wordlist.
C14_Witness ==
    /\ commonPaths = << >>
    /\ Started /\ Current.pc = "done"
    /\ ~isScanning

(* ====================================================================== *)
(* C15                                                                    *)
(* ====================================================================== *)

\* C15: progress * total = 100 * number of results, progress never
\* decreases within a scan, and it is 100 when the scan has completed.
C15_Progress ==
    [][ /\ progress'.num * Len(commonPaths) = 100 * Len(results') * progress'.den
        /\ ~StartsScan => AtLeast(progress', progress)
        /\ (Started' /\ Current'.pc = "done" /\ ~StopRequested'
              /\ commonPaths # << >>)
              => progress'.num = 100 * progress'.den ]_vars

(* ====================================================================== *)
(* C16                                                                    *)
(* ====================================================================== *)

\* C16 as stated: the base URL of every scan starts with "http://" or
\* "https://" and does not end with "/"; it stays the same while the scan
\* runs and every probe URL is base + "/" + path.
C16_BaseWellFormed ==
    [][ /\ StartsScan =>
              LET base == scans'[abortControllerRef'].baseUrl
              IN  HasScheme(base) /\ ~EndsInSlash(base)
        /\ \A n \in ScanIds :
              /\ (n \in LiveScans /\ scans'[n].pc # "done")
                    => scans'[n].baseUrl = scans[n].baseUrl
              /\ ProbeCompletes(n)
                    => results'[1].url = scans[n].baseUrl \o "/" \o Candidate(n) ]_vars

\* C16 amended: the base URL starts with "http://" or "https://" and does
\* not end with "/" whenever the scheme-qualified target does not end with
\* "//"; it stays the same while the scan runs and every probe URL is
\* base + "/" + path.
C16_BaseUrl ==
    [][ /\ StartsScan =>
              LET base == scans'[abortControllerRef'].baseUrl
                  q    == Qualified(targetUrl)
              IN  ~(EndsInSlash(q) /\ EndsInSlash(SubSeq(q, 1, Len(q) - 1)))
                     => HasScheme(base) /\ ~EndsInSlash(base)
        /\ \A n \in ScanIds :
              /\ (n \in LiveScans /\ scans'[n].pc # "done")
                    => scans'[n].baseUrl = scans[n].baseUrl
              /\ ProbeCompletes(n)
                    => results'[1].url = scans[n].baseUrl \o "/" \o Candidate(n) ]_vars

\* C16 witness: a probe of a scan on "http://example.com" has completed
\* after the target input was changed.
C16_Witness ==
    /\ Len(results) >= 1
    /\ results[1].url = "http://example.com/admin"
    /\ targetUrl # "http://example.com/"
    /\ \E n \in ScanIds : scans[n].pc = "delay" /\ scans[n].baseUrl = "http://example.com"

(* ====================================================================== *)
(* C17                                                                    *)
(* ====================================================================== *)

\* C17: a stop requested while paused leaves the controller not scanning
\* and not paused, and until a new scan is started no probe is issued and
\* no result is added.
C17_PausedStopEnds ==
    [][ /\ (~StopRequested /\ StopRequested') => ~isScanning' /\ ~isPaused'
        /\ (StopRequested /\ ~StartsScan)
              => /\ \A n \in ScanIds : ~IssuesProbe(n)
                 /\ results' = results
                 /\ ~isScanning' /\ ~isPaused' ]_vars

(* ====================================================================== *)
(* C18                                                                    *)
(* ====================================================================== *)

\* C18: every invocation that is live eventually returns, and a controller
\* that is scanning eventually is neither scanning nor paused.
C18_ScanEnds ==
    /\ \A n \in ScanIds : (n \in LiveScans) ~> (scans[n].pc = "done")
    /\ isScanning ~> (~isScanning /\ ~isPaused)

\* C18 witness: a scan of two candidates or more has ended by completion.
C18_Witness ==
    /\ Started /\ Current.pc = "done" /\ ~StopRequested
    /\ ~isScanning /\ ~isPaused
    /\ Len(commonPaths) >= 2
    /\ LiveScans = {}

(* ====================================================================== *)
(* C19                                                                    *)
(* ====================================================================== *)

\* C19: isPaused implies isScanning, and isScanning is true exactly while
\* the loop of the current scan is live and has not been sent a stop.
C19_Lifecycle ==
    /\ isPaused => isScanning
    /\ isScanning <=> (Started /\ abortControllerRef \in LiveScans /\ ~StopRequested)

(* ====================================================================== *)
(* C20                                                                    *)
(* ====================================================================== *)

====
